---- MODULE Spec2Model ----
(***************************************************************************)
(* android-notes: a documentation site.  The custom code is the landing    *)
(* page component HomePage (two revisions, src/unnamed/part_000 and        *)
(* src/unnamed/part_001), the root layout Layout (src/app/layout.tsx) and  *)
(* the content documents with their front-matter.  The hosting framework   *)
(* serves page requests: it routes a request to a page component, renders  *)
(* the page, wraps it in Layout and sends the document.                    *)
(*                                                                         *)
(* Markup is modelled as a tree of elements [tag, props, children].        *)
(* Module text is ASCII: a non-ASCII character of a source string is       *)
(* written {U+XXXX}, and an icon (an emoji string) is the sequence of its  *)
(* Unicode code points.                                                    *)
(***************************************************************************)
EXTENDS Integers, Sequences, FiniteSets, TLC

\* Number of page requests the framework may have in flight at once.
NumSlots == 2

Slots == 1..NumSlots

VARIABLES
    build,   \* which revision of the landing page is deployed
    fonts,   \* module-level constants of layout.tsx (jetbrainsMono, firaCode)
    req      \* per slot: the request in flight and what has been rendered for it

vars == <<build, fonts, req>>

(***************************************************************************)
(* Markup                                                                  *)
(***************************************************************************)
El(tag, props, children) == [tag |-> tag, props |-> props, children |-> children]

\* A JSX text child.
Text(value) == El("#text", [value |-> value], <<>>)

\* An element without props.
NoProps == [none |-> TRUE]

\* No element (a slot that has not rendered yet).
Null == El("#null", NoProps, <<>>)

RECURSIVE ConcatAll(_)
ConcatAll(ss) == IF ss = <<>> THEN <<>> ELSE Head(ss) \o ConcatAll(Tail(ss))

\* The elements of a tree with the given tag, in document order.
RECURSIVE FindAll(_, _)
FindAll(node, tag) ==
    (IF node.tag = tag THEN <<node>> ELSE <<>>)
        \o ConcatAll([i \in 1..Len(node.children) |-> FindAll(node.children[i], tag)])

\* How many times the subtree `target` occurs in the tree `node`.
RECURSIVE Occurrences(_, _)
RECURSIVE SumAll(_)
SumAll(ns) == IF ns = <<>> THEN 0 ELSE Head(ns) + SumAll(Tail(ns))

Occurrences(node, target) ==
    IF node = target THEN 1
    ELSE SumAll([i \in 1..Len(node.children) |-> Occurrences(node.children[i], target)])

\* The position of the first child with the given tag, 0 when there is none.
IndexOfTag(children, tag) ==
    IF \E i \in 1..Len(children) : children[i].tag = tag
    THEN CHOOSE i \in 1..Len(children) :
            /\ children[i].tag = tag
            /\ \A j \in 1..(i - 1) : children[j].tag # tag
    ELSE 0

(***************************************************************************)
(* The landing page, HomePage                                              *)
(***************************************************************************)
\* Mutant of Card: the description prop is not passed on.
Card_EmptyDescription(title, description, icon, draggable) ==
    El("Card", [title |-> title, description |-> "", icon |-> icon,
                draggable |-> draggable], <<>>)

\* Mutant of Card: the icon string holds the emoji twice.
Card_IconDoubled(title, description, icon, draggable) ==
    El("Card", [title |-> title, description |-> description, icon |-> icon \o icon,
                draggable |-> draggable], <<>>)

\* Mutant of Card: the card links to a page of its topic.
Card_Linked(title, description, icon, draggable) ==
    El("Card", [title |-> title, description |-> description, icon |-> icon,
                draggable |-> draggable, href |-> "/docs/" \o title], <<>>)

\* <Card title description icon draggable />
Card(title, description, icon, draggable) ==
    El("Card", [title |-> title, description |-> description, icon |-> icon,
                draggable |-> draggable], <<>>)

\* part_000 lines 28-63
Cards_part_000 ==
    << Card("Kotlin OOP",
            "Encapsulation, inheritance, polymorphism & abstraction for Android classes",
            <<128208>>, TRUE),
       Card("Kotlin Functions",
            "Declarative, higher{U+2011}order & extension functions in Android code",
            <<128295>>, TRUE),
       Card("Coroutines & Flows",
            "Suspend, launch & Flow streams for async tasks in Android",
            <<128640>>, TRUE),
       Card("Conditionals & Loops",
            "if/when and for/while constructs for Kotlin control flow",
            <<128257>>, TRUE),
       Card("Arrays & Lists",
            "Fixed & dynamic collections: Array, List, Set, Map usage",
            <<128203>>, TRUE),
       Card("Compose Basics",
            "Composable functions, state & modifiers for UI in Jetpack Compose",
            <<127912>>, TRUE) >>

\* Mutant of Cards_part_001: one description was reworded in this revision
\* only.
Cards_part_001_Reworded ==
    [Cards_part_000 EXCEPT
        ![3].props.description = "Suspend functions & Flow streams for async work"]

\* part_001 lines 36-71
Cards_part_001 ==
    << Card("Kotlin OOP",
            "Encapsulation, inheritance, polymorphism & abstraction for Android classes",
            <<128208>>, TRUE),
       Card("Kotlin Functions",
            "Declarative, higher{U+2011}order & extension functions in Android code",
            <<128295>>, TRUE),
       Card("Coroutines & Flows",
            "Suspend, launch & Flow streams for async tasks in Android",
            <<128640>>, TRUE),
       Card("Conditionals & Loops",
            "if/when and for/while constructs for Kotlin control flow",
            <<128257>>, TRUE),
       Card("Arrays & Lists",
            "Fixed & dynamic collections: Array, List, Set, Map usage",
            <<128203>>, TRUE),
       Card("Compose Basics",
            "Composable functions, state & modifiers for UI in Jetpack Compose",
            <<127912>>, TRUE) >>

\* part_000 lines 8-22
Hero_part_000 ==
    El("section", [className |-> "text-center py-20"], <<
        El("div", [className |-> "container mx-auto px-6"], <<
            El("h1", [className |-> "text-7xl text-fd-primary font-extrabold mb-4"],
               << Text("Android Notes by Me") >>),
            El("p", [className |-> "text-xl text-fd-secondary-foreground mb-6"],
               << Text("Who am I? You don't need to know that.") >>),
            El("Link", [href |-> "/docs",
                        className |-> "hover:bg-fd-primary hover:text-fd-primary-foreground text-white px-8 py-3 rounded-lg text-lg bg-fd-primary-foreground mt-5 transition-all"],
               << Text("Go to docs") >>) >>) >>)

\* Mutant of Hero_part_001: the image path is computed from state (another
\* asset once a page has been rendered).
Hero_part_001_ComputedSrc ==
    El("section", [className |-> "text-center py-20"], <<
        El("div", [className |-> "container mx-auto px-6"], <<
            El("Image", [src |-> IF \E s \in Slots : req[s].phase \in {"page", "done"}
                                 THEN "/images/android-sunset-icon-dark.png"
                                 ELSE "/images/android-sunset-icon.png",
                         width |-> 512, height |-> 512, alt |-> "icon",
                         className |-> "text-center mx-auto"], <<>>) >>
            \o Hero_part_000.children[1].children) >>)

\* Mutant of Hero_part_001: the link targets the site root.
Hero_part_001_WrongHref ==
    El("section", [className |-> "text-center py-20"], <<
        El("div", [className |-> "container mx-auto px-6"], <<
            El("Image", [src |-> "/images/android-sunset-icon.png", width |-> 512,
                         height |-> 512, alt |-> "icon",
                         className |-> "text-center mx-auto"], <<>>),
            El("h1", [className |-> "text-7xl text-fd-primary font-extrabold mb-4"],
               << Text("Android Notes by Me") >>),
            El("p", [className |-> "text-xl text-fd-secondary-foreground mb-6"],
               << Text("Who am I? You don't need to know that.") >>),
            El("Link", [href |-> "/", className |-> "px-8 py-3 rounded-lg text-lg"],
               << Text("Go to docs") >>) >>) >>)

\* part_001 lines 9-30
Hero_part_001 ==
    El("section", [className |-> "text-center py-20"], <<
        El("div", [className |-> "container mx-auto px-6"], <<
            El("Image", [src |-> "/images/android-sunset-icon.png", width |-> 512,
                         height |-> 512, alt |-> "icon",
                         className |-> "text-center mx-auto"], <<>>),
            El("h1", [className |-> "text-7xl text-fd-primary font-extrabold mb-4"],
               << Text("Android Notes by Me") >>),
            El("p", [className |-> "text-xl text-fd-secondary-foreground mb-6"],
               << Text("Who am I? You don't need to know that.") >>),
            El("Link", [href |-> "/docs",
                        className |-> "dark:hover:bg-fd-primary dark:hover:text-fd-primary-foreground dark:text-white px-8 py-3 rounded-lg text-lg dark:bg-fd-primary-foreground mt-5 transition-all bg-fd-accent hover:bg-fd-primary hover:text-white text-fd-primary-foreground"],
               << Text("Go to docs") >>) >>) >>)

\* Mutant of Features: the cards are rendered in reverse order.
Features_Reversed(cards) ==
    El("section", [id |-> "features", className |-> "py-16"], <<
        El("div", [className |-> "container mx-auto px-6"], <<
            El("Cards", NoProps,
               [i \in 1..Len(cards) |-> cards[Len(cards) + 1 - i]]) >>) >>)

\* Mutant of Features: the first card is pasted over the last one.
Features_RepeatsFirst(cards) ==
    El("section", [id |-> "features", className |-> "py-16"], <<
        El("div", [className |-> "container mx-auto px-6"], <<
            El("Cards", NoProps, SubSeq(cards, 1, Len(cards) - 1) \o <<cards[1]>>) >>) >>)

\* The features section around a list of cards.
Features(cards) ==
    El("section", [id |-> "features", className |-> "py-16"], <<
        El("div", [className |-> "container mx-auto px-6"], <<
            El("Cards", NoProps, cards) >>) >>)

\* Mutant of Main: the two sections are swapped.
Main_FeaturesFirst(hero, features) ==
    El("main", [className |-> "flex flex-1 flex-col justify-center text-center"],
       << features, hero >>)

Main(hero, features) ==
    El("main", [className |-> "flex flex-1 flex-col justify-center text-center"],
       << hero, features >>)

HomePage_part_000 == Main(Hero_part_000, Features(Cards_part_000))

HomePage_part_001 == Main(Hero_part_001, Features(Cards_part_001))

Builds == {"part_000", "part_001"}

\* Mutant of HomePage: the page reads shared state: once another page has
\* been rendered it drops the hero and shows the features twice.
HomePage_Stateful ==
    LET base == IF build = "part_000" THEN HomePage_part_000 ELSE HomePage_part_001
        busy == Cardinality({s \in Slots : req[s].phase \in {"page", "done"}})
    IN  IF busy = 0 THEN base
        ELSE El("main", base.props, << base.children[2], base.children[2] >>)

\* The deployed revision's HomePage(): no parameters, no reads.
HomePage == IF build = "part_000" THEN HomePage_part_000 ELSE HomePage_part_001

(***************************************************************************)
(* Content documents                                                       *)
(***************************************************************************)
\* A document is its sequence of lines, by kind; a run of n consecutive
\* lines that are neither a '---' line, a 'key: value' line nor an image
\* line is TextLines(n).
FenceLine == [kind |-> "fence", key |-> "", value |-> "", n |-> 1]

FieldLine(key, value) == [kind |-> "field", key |-> key, value |-> value, n |-> 1]

ImageLine(alt, path) == [kind |-> "image", key |-> alt, value |-> path, n |-> 1]

TextLines(n) == [kind |-> "text", key |-> "", value |-> "", n |-> n]

\* Mutant of AndroidComponentsDoc: the description line is missing.
AndroidComponentsDoc_NoDescription ==
    << FenceLine,
       FieldLine("title", "Android App Components"),
       FenceLine,
       TextLines(12),
       ImageLine("Android Hierarchy", "/images/android-hierarchy-dark.png"),
       TextLines(1),
       FenceLine,
       TextLines(494) >>

\* src/content/docs/android-components.mdx lines 1-513 (513 lines)
AndroidComponentsDoc ==
    << FenceLine,
       FieldLine("title", "Android App Components"),
       FieldLine("description", "Components that comprise and android app"),
       FenceLine,
       TextLines(12),
       ImageLine("Android Hierarchy", "/images/android-hierarchy-dark.png"),
       TextLines(1),
       FenceLine,
       TextLines(8),
       ImageLine("Lifecycle", "/images/activity-lifecycle-dark.png"),
       TextLines(19),
       ImageLine("Back Stack", "/images/back-stack-dark.png"),
       TextLines(83),
       ImageLine("MVVM", "/images/android-mvvm-dark.png"),
       TextLines(31),
       FenceLine,
       TextLines(22),
       FenceLine,
       TextLines(43),
       FenceLine,
       TextLines(58),
       FenceLine,
       TextLines(56),
       FenceLine,
       TextLines(29),
       FenceLine,
       TextLines(79),
       FenceLine,
       TextLines(39),
       FenceLine,
       TextLines(16) >>

\* Mutant of JetpackComposeDoc: the first section separator opens a second
\* block that declares title again.
JetpackComposeDoc_SecondBlock ==
    << FenceLine,
       FieldLine("title", "Jetpack Compose"),
       FieldLine("description", "A guide to using jetpack compose in android."),
       FenceLine,
       TextLines(210),
       FenceLine,
       FieldLine("title", "Layouts"),
       FenceLine,
       TextLines(851) >>

\* src/app/layout.tsx lines 27-1091 (1065 lines)
JetpackComposeDoc ==
    << FenceLine,
       FieldLine("title", "Jetpack Compose"),
       FieldLine("description", "A guide to using jetpack compose in android."),
       FenceLine,
       TextLines(210),
       FenceLine,
       TextLines(283),
       FenceLine,
       TextLines(230),
       FenceLine,
       TextLines(272),
       FenceLine,
       TextLines(54),
       FenceLine,
       TextLines(7) >>

ContentDocuments == {AndroidComponentsDoc, JetpackComposeDoc}

\* The line closing the front-matter: the first '---' line after an opening
\* '---' on line 1; 0 when the document has no front-matter block.
FrontMatterClose(doc) ==
    IF Len(doc) > 0 /\ doc[1].kind = "fence"
          /\ \E i \in 2..Len(doc) : doc[i].kind = "fence"
    THEN CHOOSE i \in 2..Len(doc) :
            /\ doc[i].kind = "fence"
            /\ \A j \in 2..(i - 1) : doc[j].kind # "fence"
    ELSE 0

FrontMatterLines(doc) ==
    {i \in 2..(FrontMatterClose(doc) - 1) : doc[i].kind = "field"}

\* The front-matter as a map from the declared fields to their values (the
\* last declaration of a field wins).
FrontMatter(doc) ==
    [k \in {doc[i].key : i \in FrontMatterLines(doc)} |->
        doc[CHOOSE i \in FrontMatterLines(doc) :
                /\ doc[i].key = k
                /\ \A j \in FrontMatterLines(doc) : doc[j].key = k => j <= i].value]

\* The page the documentation framework renders for a content document.
DocPage(doc) == El("DocsPage", [frontmatter |-> FrontMatter(doc)], <<>>)

(***************************************************************************)
(* The root shell, Layout                                                  *)
(***************************************************************************)
\* next/font/google: the loader returns the font's generated class token
\* and, when the `variable` option names a CSS variable, the class token
\* that binds that variable.
GoogleFont(family, options) ==
    [className |-> "__className_" \o family,
     variable  |-> IF "variable" \in DOMAIN options
                   THEN "__variable_" \o family
                   ELSE "undefined"]

\* layout.tsx lines 6-8
jetbrainsMono == GoogleFont("JetBrains_Mono", [subsets |-> <<"latin">>])

\* Mutant of firaCode: the loader is called without the `variable` option.
firaCode_NoVariable == GoogleFont("Fira_Code", [subsets |-> <<"latin">>])

\* layout.tsx lines 9-12
firaCode ==
    GoogleFont("Fira_Code", [subsets |-> <<"latin">>, variable |-> "--fira-code"])

\* Mutant of Layout: the root attributes depend on the child content.
Layout_RootFromChildren(children) ==
    El("html", [lang |-> IF children.tag = "DocsPage" THEN "en" ELSE "en-US",
                className |-> IF children.tag = "DocsPage"
                              THEN fonts.firaCode.variable
                              ELSE fonts.jetbrainsMono.className \o " " \o fonts.firaCode.variable,
                suppressHydrationWarning |-> TRUE], <<
        El("body", [className |-> "flex flex-col min-h-screen"], <<
            El("RootProvider", NoProps, << children >>) >>) >>)

\* Mutant of Layout: the shell fails on content pages (an error outcome in
\* place of the document).
Layout_FailsOnContent(children) ==
    IF children.tag = "DocsPage"
    THEN El("#error", [message |-> "cannot render"], <<>>)
    ELSE El("html", [lang |-> "en",
                     className |-> fonts.jetbrainsMono.className \o " " \o fonts.firaCode.variable,
                     suppressHydrationWarning |-> TRUE], <<
            El("body", [className |-> "flex flex-col min-h-screen"], <<
                El("RootProvider", NoProps, << children >>) >>) >>)

\* Mutant of Layout: the children are rendered in the body as well as in
\* the provider.
Layout_ChildrenTwice(children) ==
    El("html", [lang |-> "en",
                className |-> fonts.jetbrainsMono.className \o " " \o fonts.firaCode.variable,
                suppressHydrationWarning |-> TRUE], <<
        El("body", [className |-> "flex flex-col min-h-screen"], <<
            children,
            El("RootProvider", NoProps, << children >>) >>) >>)

\* layout.tsx lines 14-25; reads the module-level fonts.
Layout(children) ==
    El("html", [lang |-> "en",
                className |-> fonts.jetbrainsMono.className \o " " \o fonts.firaCode.variable,
                suppressHydrationWarning |-> TRUE], <<
        El("body", [className |-> "flex flex-col min-h-screen"], <<
            El("RootProvider", NoProps, << children >>) >>) >>)

(***************************************************************************)
(* Serving page requests                                                   *)
(***************************************************************************)
DocRoutes == {"/docs/android-components", "/docs/jetpack-compose"}

Routes == {"/"} \cup DocRoutes

DocAt(route) ==
    IF route = "/docs/android-components" THEN AndroidComponentsDoc
    ELSE JetpackComposeDoc

\* The page component's output for a route.
PageFor(route) == IF route = "/" THEN HomePage ELSE DocPage(DocAt(route))

Idle == [phase |-> "idle", route |-> "", page |-> Null, doc |-> Null]

TypeOK ==
    /\ build \in Builds
    /\ DOMAIN req = Slots
    /\ \A s \in Slots :
        /\ req[s].phase \in {"idle", "routed", "page", "done"}
        /\ req[s].route \in Routes \cup {""}

\* After the build: the modules are loaded, no request is in flight.
Init ==
    /\ build \in Builds
    /\ fonts = [jetbrainsMono |-> jetbrainsMono, firaCode |-> firaCode]
    /\ req = [s \in Slots |-> Idle]

\* A request for a route arrives.
Request(s, route) ==
    /\ req[s].phase = "idle"
    /\ req' = [req EXCEPT ![s] = [Idle EXCEPT !.phase = "routed", !.route = route]]
    /\ UNCHANGED <<build, fonts>>

\* The page component of the route is rendered.
RenderPage(s) ==
    /\ req[s].phase = "routed"
    /\ req' = [req EXCEPT ![s].phase = "page", ![s].page = PageFor(req[s].route)]
    /\ UNCHANGED <<build, fonts>>

\* Mutant of RenderShell: the shell renders a second time before the
\* document is complete.
RenderShell_Rerenders(s) ==
    /\ req[s].phase = "page"
    /\ req' = [req EXCEPT ![s].phase = IF req[s].doc = Null THEN "page" ELSE "done",
                          ![s].doc = Layout(req[s].page)]
    /\ UNCHANGED <<build, fonts>>

\* Mutant of RenderShell: rendering the shell rebinds a module-level font.
RenderShell_TouchesFonts(s) ==
    /\ req[s].phase = "page"
    /\ req' = [req EXCEPT ![s].phase = "done", ![s].doc = Layout(req[s].page)]
    /\ fonts' = [fonts EXCEPT !.firaCode = fonts.jetbrainsMono]
    /\ UNCHANGED build

\* Layout wraps the page.
RenderShell(s) ==
    /\ req[s].phase = "page"
    /\ req' = [req EXCEPT ![s].phase = "done", ![s].doc = Layout(req[s].page)]
    /\ UNCHANGED <<build, fonts>>

\* The document is sent and the slot is free again.
Respond(s) ==
    /\ req[s].phase = "done"
    /\ req' = [req EXCEPT ![s] = Idle]
    /\ UNCHANGED <<build, fonts>>

Next ==
    \E s \in Slots :
        \/ \E route \in Routes : Request(s, route)
        \/ RenderPage(s)
        \/ RenderShell(s)
        \/ Respond(s)

Spec == Init /\ [][Next]_vars

\* Rendering is synchronous: once a request is routed, its page and the
\* shell run to completion and the document is sent.
FairSpec ==
    /\ Spec
    /\ \A s \in Slots :
        /\ WF_vars(RenderPage(s))
        /\ WF_vars(RenderShell(s))
        /\ WF_vars(Respond(s))

(***************************************************************************)
(* What the claims read                                                    *)
(***************************************************************************)
\* The slot holds a rendered page (the shell may or may not have run yet).
Rendered(s) == req[s].phase \in {"page", "done"}

HomeRendered(s) == Rendered(s) /\ req[s].route = "/"

Done(s) == req[s].phase = "done"

\* The feature cards of a rendered landing page, in document order.
FeatureCardsOf(page) == FindAll(page, "Card")

TitlesOf(cards) == {cards[i].props.title : i \in 1..Len(cards)}

\* The hero's content: the children of the container of the first section.
HeroContent(page) == page.children[1].children[1].children

\* The tags of a sequence of elements, in order.
TagsOf(children) == [i \in 1..Len(children) |-> children[i].tag]

\* The '---' lines of a document after the one closing its front-matter.
SectionSeparators(doc) ==
    {i \in (FrontMatterClose(doc) + 1)..Len(doc) : doc[i].kind = "fence"}

\* The image paths a page renders, in document order.
ImageRefsOfPage(page) ==
    LET images == FindAll(page, "Image") IN
        [i \in 1..Len(images) |-> images[i].props.src]

\* The image paths a content document references.
ImageRefsOfDoc(doc) == {doc[i].value : i \in {j \in 1..Len(doc) : doc[j].kind = "image"}}

\* A path of the form /images/<name>.png, <name> non-empty and without '/'.
IsImagePath(path) ==
    /\ Len(path) > 12
    /\ SubSeq(path, 1, 8) = "/images/"
    /\ SubSeq(path, Len(path) - 3, Len(path)) = ".png"
    /\ \A i \in 9..(Len(path) - 4) : SubSeq(path, i, i) # "/"

\* The text of an element whose only child is a text node.
TextOf(el) == el.children[1].props.value

\* What the landing page's contract names: heading, tagline, the
\* call-to-action's target and label, and the cards in order.
Contract(page) ==
    LET link  == FindAll(page, "Link")[1]
        cards == FindAll(page, "Card")
    IN  [heading |-> TextOf(FindAll(page, "h1")[1]),
         tagline |-> TextOf(FindAll(page, "p")[1]),
         cta     |-> [href |-> link.props.href, label |-> TextOf(link)],
         cards   |-> [i \in 1..Len(cards) |-> cards[i].props]]

\* A tree without its Image elements and with the styling classes of its
\* links blanked.
RECURSIVE WithoutImageAndLinkStyle(_)
WithoutImageAndLinkStyle(node) ==
    LET kept == SelectSeq(node.children, LAMBDA c : c.tag # "Image")
        kids == [i \in 1..Len(kept) |-> WithoutImageAndLinkStyle(kept[i])]
    IN  IF node.tag = "Link"
        THEN El(node.tag, [node.props EXCEPT !.className = ""], kids)
        ELSE El(node.tag, node.props, kids)

\* The elements of a tree that carry a link target (an href prop), in
\* document order.
RECURSIVE LinkingElements(_)
LinkingElements(node) ==
    (IF "href" \in DOMAIN node.props THEN <<node>> ELSE <<>>)
        \o ConcatAll([i \in 1..Len(node.children) |-> LinkingElements(node.children[i])])

\* Grapheme clusters of a string of code points: a code point starts a
\* cluster unless it is a joiner or modifier (ZWJ U+200D, variation
\* selectors U+FE0E/U+FE0F, combining marks U+0300-U+036F, skin tones
\* U+1F3FB-U+1F3FF) or follows a ZWJ.
GlyphCount(icon) ==
    Cardinality({i \in 1..Len(icon) :
        /\ icon[i] \notin ({8205, 65038, 65039} \cup (768..879) \cup (127995..127999))
        /\ (i = 1 \/ icon[i - 1] # 8205)})

\* The attributes of the document root that the shell declares.
RootAttrs(doc) == [lang |-> doc.props.lang, className |-> doc.props.className]

(***************************************************************************)
(* Claims                                                                  *)
(***************************************************************************)

\* C1: every render of the landing page produces exactly six feature cards,
\* each with a non-empty title, a non-empty description and a non-empty icon.
C1_SixNonEmptyCards ==
    \A s \in Slots : HomeRendered(s) =>
        LET cards == FeatureCardsOf(req[s].page) IN
            /\ Len(cards) = 6
            /\ \A i \in 1..Len(cards) :
                /\ cards[i].props.title # ""
                /\ cards[i].props.description # ""
                /\ cards[i].props.icon # <<>>
            /\ Done(s) => FeatureCardsOf(req[s].doc) = cards

\* C1 witness: a landing page has been rendered and wrapped, with its cards.
C1_Witness ==
    \E s \in Slots :
        /\ Done(s) /\ req[s].route = "/"
        /\ Len(FeatureCardsOf(req[s].doc)) = 6

\* C2: a render of the landing page produces a card list of length 6 whose
\* set of titles is exactly the six titles of the scenario (none missing,
\* none extra, none repeated).
C2_TitleSet ==
    \A s \in Slots : HomeRendered(s) =>
        LET cards == FeatureCardsOf(req[s].page) IN
            /\ Len(cards) = 6
            /\ TitlesOf(cards) = {"Kotlin OOP", "Kotlin Functions", "Coroutines & Flows",
                                  "Conditionals & Loops", "Arrays & Lists", "Compose Basics"}
            /\ \A i, j \in 1..Len(cards) :
                cards[i].props.title = cards[j].props.title => i = j

\* C2 witness: a rendered landing page that shows the card "Compose Basics".
C2_Witness ==
    \E s \in Slots :
        /\ HomeRendered(s)
        /\ "Compose Basics" \in TitlesOf(FeatureCardsOf(req[s].page))

\* C3: in every render of the landing page the call-to-action link targets
\* the documentation index "/docs"; the page renders no link to anywhere else.
C3_CallToActionTarget ==
    \A s \in Slots : HomeRendered(s) =>
        LET links == FindAll(req[s].page, "Link") IN
            /\ Len(links) >= 1
            /\ \A i \in 1..Len(links) : links[i].props.href = "/docs"

\* C3 witness: a rendered landing page of the revision with the hero image,
\* whose hero holds a link.
C3_Witness ==
    \E s \in Slots :
        /\ HomeRendered(s) /\ build = "part_001"
        /\ IndexOfTag(HeroContent(req[s].page), "Link") > 0

\* C4: whatever child content the shell is given, the document root carries
\* the same lang attribute and the same font tokens: any two documents agree
\* on them, and they are those of the shell rendered around no content.
C4_ChildrenDoNotAffectRoot ==
    \A s \in Slots : Done(s) =>
        /\ RootAttrs(req[s].doc) = RootAttrs(Layout(Null))
        /\ \A t \in Slots : Done(t) => RootAttrs(req[t].doc) = RootAttrs(req[s].doc)

\* C4 witness: two documents with different child content, a landing page
\* and a content page.
C4_Witness ==
    \E s, t \in Slots :
        /\ Done(s) /\ Done(t)
        /\ req[s].page.tag = "main" /\ req[t].page.tag = "DocsPage"

\* C5: every content document declares both title and description in its
\* front-matter, and every rendered content page carries both.
C5_FrontMatterFields ==
    /\ \A d \in ContentDocuments :
        /\ FrontMatterClose(d) > 0
        /\ {"title", "description"} \subseteq DOMAIN FrontMatter(d)
    /\ \A s \in Slots : (Rendered(s) /\ req[s].route \in DocRoutes) =>
        {"title", "description"} \subseteq DOMAIN req[s].page.props.frontmatter

\* C5 witness: both content documents have been rendered, each with its title.
C5_Witness ==
    \E s, t \in Slots :
        /\ Rendered(s) /\ req[s].route = "/docs/android-components"
        /\ req[s].page.props.frontmatter["title"] = "Android App Components"
        /\ Rendered(t) /\ req[t].route = "/docs/jetpack-compose"
        /\ req[t].page.props.frontmatter["title"] = "Jetpack Compose"

\* C6: the shell wraps the child content in exactly one RootProvider inside
\* the body: the children occur exactly once in the document, unmodified, as
\* the provider's only content, and html is the outermost element.
C6_SingleProviderAroundChildren ==
    \A s \in Slots : Done(s) =>
        LET doc == req[s].doc IN
            /\ doc.tag = "html"
            /\ Len(FindAll(doc, "html")) = 1
            /\ Len(doc.children) = 1
            /\ doc.children[1].tag = "body"
            /\ Len(doc.children[1].children) = 1
            /\ doc.children[1].children[1].tag = "RootProvider"
            /\ Len(FindAll(doc, "RootProvider")) = 1
            /\ doc.children[1].children[1].children = << req[s].page >>
            /\ req[s].page = PageFor(req[s].route)
            /\ Occurrences(doc, req[s].page) = 1

\* C6 witness: a content page wrapped by the shell.
C6_Witness ==
    \E s \in Slots :
        /\ Done(s) /\ req[s].route \in DocRoutes
        /\ Len(FindAll(req[s].doc, "DocsPage")) = 1

\* C7: the landing page is a pure function of its literals: every render of
\* it yields the deployed revision's literal tree, so any two renders, also
\* ones made in different states, are identical.
C7_HomePageDeterministic ==
    \A s \in Slots : HomeRendered(s) =>
        /\ req[s].page = (IF build = "part_000" THEN HomePage_part_000
                                                ELSE HomePage_part_001)
        /\ \A t \in Slots : HomeRendered(t) =>
            /\ req[t].page = req[s].page
            /\ (Done(s) /\ Done(t)) => req[t].doc = req[s].doc

\* C7 witness: two landing-page renders, one finished while the other had
\* only been rendered (so they ran in different states).
C7_Witness ==
    \E s, t \in Slots :
        /\ s # t
        /\ HomeRendered(s) /\ Done(s)
        /\ HomeRendered(t) /\ ~Done(t)

\* C8: the hero holds a heading, a tagline and a link to the documentation
\* index, one of each and in that order, with nothing else but (in the
\* revision part_001) the image before the heading, and the hero section
\* precedes the feature-card section.
C8_HeroOrder ==
    \A s \in Slots : HomeRendered(s) =>
        LET page == req[s].page
            hero == HeroContent(page)
        IN  /\ Len(page.children) = 2
            /\ Len(FindAll(page.children[1], "h1")) = 1
            /\ Len(FindAll(page.children[1], "p")) = 1
            /\ Len(FindAll(page.children[1], "Link")) = 1
            /\ TagsOf(hero) \in {<<"h1", "p", "Link">>, <<"Image", "h1", "p", "Link">>}
            /\ 0 < IndexOfTag(hero, "h1")
            /\ IndexOfTag(hero, "h1") < IndexOfTag(hero, "p")
            /\ IndexOfTag(hero, "p") < IndexOfTag(hero, "Link")
            /\ hero[IndexOfTag(hero, "Link")].props.href = "/docs"
            /\ FindAll(page.children[1], "Card") = <<>>
            /\ Len(FindAll(page.children[2], "Cards")) = 1
            /\ FindAll(page.children[2], "h1") = <<>>

\* C8 witness: a rendered landing page whose hero starts with the image, so
\* the heading is its second element.
C8_Witness ==
    \E s \in Slots :
        /\ HomeRendered(s)
        /\ IndexOfTag(HeroContent(req[s].page), "Image") = 1
        /\ IndexOfTag(HeroContent(req[s].page), "h1") = 2

\* C9: no render changes state shared between renders: a step leaves the
\* shell's font constants and the deployed page as they were, changes the
\* record of at most one request, a landing page rendered by the step has
\* the same six cards as one rendered before the step would have had, and a
\* document produced earlier is still what the shell produces after the step.
C9_RendersShareNoState ==
    [][ /\ fonts' = fonts
        /\ build' = build
        /\ fonts' = [jetbrainsMono |-> jetbrainsMono, firaCode |-> firaCode]
        /\ \A s, t \in Slots : (req'[s] # req[s] /\ t # s) => req'[t] = req[t]
        /\ \A s \in Slots :
            (req[s].phase = "routed" /\ req'[s].phase = "page" /\ req[s].route = "/")
                => FeatureCardsOf(req'[s].page) = FeatureCardsOf(HomePage)
        /\ \A s \in Slots :
            (req[s].phase = "done" /\ req'[s].phase = "done")
                => req'[s].doc = Layout(req[s].page)' ]_vars

\* C9 witness: the shell has wrapped a landing page and a content page, one
\* request beside the other, and the fonts are those loaded at start.
C9_Witness ==
    \E s, t \in Slots :
        /\ Done(s) /\ req[s].route = "/"
        /\ Done(t) /\ req[t].route \in DocRoutes
        /\ fonts = [jetbrainsMono |-> jetbrainsMono, firaCode |-> firaCode]

\* C10: every feature card's icon is exactly one glyph: never empty, never
\* more than one.
C10_SingleGlyphIcons ==
    \A s \in Slots : HomeRendered(s) =>
        LET cards == FeatureCardsOf(req[s].page) IN
            \A i \in 1..Len(cards) :
                /\ Len(cards[i].props.icon) >= 1
                /\ GlyphCount(cards[i].props.icon) = 1

\* C10 witness: a rendered landing page whose six cards each carry an icon.
C10_Witness ==
    \E s \in Slots :
        /\ HomeRendered(s)
        /\ Len(FeatureCardsOf(req[s].page)) = 6
        /\ \A i \in 1..6 : FeatureCardsOf(req[s].page)[i].props.icon # <<>>

\* C11: neither component has an error outcome of its own: whenever a page
\* or the shell is due it can run, what it returns is markup (a main element
\* for the landing page, an html document around the given children for the
\* shell, never an error), and running it changes nothing but the markup and
\* the progress of its own request.
C11_NoErrorOutcome ==
    /\ [](\A s \in Slots :
            /\ req[s].phase = "routed" => ENABLED RenderPage(s)
            /\ req[s].phase = "page" => ENABLED RenderShell(s)
            /\ HomeRendered(s) =>
                /\ req[s].page.tag = "main"
                /\ FindAll(req[s].page, "#error") = <<>>
            /\ Done(s) =>
                /\ req[s].doc.tag = "html"
                /\ FindAll(req[s].doc, "#error") = <<>>
                /\ FindAll(req[s].doc, "#null") = <<>>)
    /\ [][\A s \in Slots :
            /\ (req[s].phase = "routed" /\ req'[s].phase = "page") =>
                /\ req'[s] = [req[s] EXCEPT !.phase = "page", !.page = req'[s].page]
                /\ fonts' = fonts /\ build' = build
            /\ (req[s].phase = "page" /\ req'[s].phase = "done") =>
                /\ req'[s] = [req[s] EXCEPT !.phase = "done", !.doc = req'[s].doc]
                /\ fonts' = fonts /\ build' = build]_vars

\* C11 witness: the shell has returned a document for each kind of child
\* content at once, a landing page and a content page.
C11_Witness ==
    \E s, t \in Slots :
        /\ Done(s) /\ req[s].doc.children[1].children[1].children[1].tag = "main"
        /\ Done(t) /\ req[t].doc.children[1].children[1].children[1].tag = "DocsPage"

\* C12: rendering is single-pass per request: a request moves from routed to
\* page to done, the page component and the shell each run in exactly one of
\* these steps (no markup changes without such a step), a routed request ends
\* with a complete document, and once it has, no render of the request is
\* left to run.
C12_SinglePassRender ==
    /\ [][\A s \in Slots :
            /\ req'[s].phase # req[s].phase =>
                <<req[s].phase, req'[s].phase>> \in
                    {<<"idle", "routed">>, <<"routed", "page">>,
                     <<"page", "done">>, <<"done", "idle">>}
            /\ (req'[s].page # req[s].page /\ req'[s].phase # "idle") =>
                (req[s].phase = "routed" /\ req'[s].phase = "page")
            /\ (req'[s].doc # req[s].doc /\ req'[s].phase # "idle") =>
                (req[s].phase = "page" /\ req'[s].phase = "done")]_vars
    /\ [](\A s \in Slots : Done(s) =>
            /\ req[s].doc = Layout(PageFor(req[s].route))
            /\ ~ENABLED RenderPage(s)
            /\ ~ENABLED RenderShell(s))
    /\ \A s \in Slots : (req[s].phase = "routed") ~> Done(s)

\* C12 witness: a request is complete while another one is still between
\* its page render and its shell render.
C12_Witness ==
    \E s, t \in Slots :
        /\ Done(s) /\ req[s].doc # Null
        /\ req[t].phase = "page" /\ req[t].doc = Null

\* C13: the six cards are rendered in the fixed source order (Kotlin OOP,
\* Kotlin Functions, Coroutines & Flows, Conditionals & Loops, Arrays &
\* Lists, Compose Basics) in every render, and the card at each position is
\* the source's card of that position: its title with its own description
\* and icon.
C13_CardOrder ==
    \A s \in Slots : HomeRendered(s) =>
        LET cards == FeatureCardsOf(req[s].page) IN
            /\ [i \in 1..Len(cards) |-> cards[i].props.title] =
                    <<"Kotlin OOP", "Kotlin Functions", "Coroutines & Flows",
                      "Conditionals & Loops", "Arrays & Lists", "Compose Basics">>
            /\ [i \in 1..Len(cards) |-> cards[i].props.icon] =
                    <<<<128208>>, <<128295>>, <<128640>>, <<128257>>, <<128203>>, <<127912>>>>
            /\ \A i \in 1..Len(cards) :
                /\ cards[i].props = Cards_part_000[i].props
                /\ cards[i].props = Cards_part_001[i].props
            /\ Done(s) => FeatureCardsOf(req[s].doc) = cards

\* C13 witness: a rendered landing page whose third card is Coroutines &
\* Flows with the rocket icon.
C13_Witness ==
    \E s \in Slots :
        /\ HomeRendered(s)
        /\ FeatureCardsOf(req[s].page)[3].props.title = "Coroutines & Flows"
        /\ FeatureCardsOf(req[s].page)[3].props.icon = <<128640>>

\* C14: the document root has lang "en" and a class list of exactly two
\* tokens: the JetBrains Mono class token, then the variable token of the
\* Fira Code font loaded with the CSS variable "--fira-code".
C14_RootLangAndFontTokens ==
    \A s \in Slots : Done(s) =>
        LET root == req[s].doc.props
            mono == GoogleFont("JetBrains_Mono", [subsets |-> <<"latin">>]).className
            fira == GoogleFont("Fira_Code",
                               [subsets |-> <<"latin">>, variable |-> "--fira-code"]).variable
        IN  /\ root.lang = "en"
            /\ root.className = mono \o " " \o fira
            /\ root.className = "__className_JetBrains_Mono __variable_Fira_Code"
            /\ fira # "undefined"
            /\ Len(root.className) = Len(mono) + 1 + Len(fira)
            /\ \A i \in 1..Len(mono) : SubSeq(mono, i, i) # " "
            /\ \A i \in 1..Len(fira) : SubSeq(fira, i, i) # " "

\* C14 witness: a complete document whose root class list starts with the
\* JetBrains Mono token.
C14_Witness ==
    \E s \in Slots :
        /\ Done(s)
        /\ SubSeq(req[s].doc.props.className, 1, 26) = "__className_JetBrains_Mono"

\* C15: in every content document the front-matter is the first block and
\* the prose body follows it: line 1 and the next '---' line delimit it,
\* title and description lie between them, and every later '---' line is a
\* section separator: no field line follows it, and no line after the
\* front-matter declares title or description again.  A rendered content
\* page carries exactly the two fields of that first block.
C15_FrontMatterFirstThenBody ==
    /\ \A d \in ContentDocuments :
        LET close == FrontMatterClose(d) IN
            /\ Len(d) > 0 /\ d[1].kind = "fence"
            /\ close > 1 /\ d[close].kind = "fence"
            /\ \A j \in 2..(close - 1) : d[j].kind = "field"
            /\ Cardinality({j \in 2..(close - 1) : d[j].key = "title"}) = 1
            /\ Cardinality({j \in 2..(close - 1) : d[j].key = "description"}) = 1
            /\ Len(d) > close /\ d[close + 1].kind = "text"
            /\ \A i \in SectionSeparators(d) :
                i < Len(d) => d[i + 1].kind # "field"
            /\ \A i \in (close + 1)..Len(d) :
                ~(d[i].kind = "field" /\ d[i].key \in {"title", "description"})
    /\ \A s \in Slots : (Rendered(s) /\ req[s].route \in DocRoutes) =>
        LET d == DocAt(req[s].route)
            fm == req[s].page.props.frontmatter
        IN  /\ DOMAIN fm = {"title", "description"}
            /\ fm["title"] = d[2].value
            /\ fm["description"] = d[3].value

\* C15 witness: the Jetpack Compose document, which has five section
\* separators after its front-matter, has been rendered with its title.
C15_Witness ==
    \E s \in Slots :
        /\ Rendered(s) /\ req[s].route = "/docs/jetpack-compose"
        /\ Cardinality(SectionSeparators(DocAt(req[s].route))) = 5
        /\ Cardinality(SectionSeparators(AndroidComponentsDoc)) = 9
        /\ req[s].page.props.frontmatter["description"] =
                "A guide to using jetpack compose in android."

\* C16: static assets are referenced only by literal paths: every image
\* reference of the content documents and of a rendered landing page has
\* the form /images/<name>.png, and the landing page's image path is the
\* same literal in every render, whatever the state it is rendered in.
C16_LiteralImagePaths ==
    /\ \A d \in ContentDocuments : \A path \in ImageRefsOfDoc(d) : IsImagePath(path)
    /\ ImageRefsOfDoc(AndroidComponentsDoc) =
            {"/images/android-hierarchy-dark.png", "/images/activity-lifecycle-dark.png",
             "/images/back-stack-dark.png", "/images/android-mvvm-dark.png"}
    /\ ImageRefsOfDoc(JetpackComposeDoc) = {}
    /\ \A s \in Slots : HomeRendered(s) =>
        LET refs == ImageRefsOfPage(req[s].page) IN
            /\ \A i \in 1..Len(refs) : IsImagePath(refs[i])
            /\ refs = (IF build = "part_000" THEN <<>>
                       ELSE <<"/images/android-sunset-icon.png">>)
            /\ Done(s) => ImageRefsOfPage(req[s].doc) = refs

\* C16 witness: two landing pages with the hero image, rendered one after
\* the other, both showing it.
C16_Witness ==
    \E s, t \in Slots :
        /\ s # t
        /\ Done(s) /\ HomeRendered(t) /\ ~Done(t) /\ req[s].route = "/"
        /\ Len(ImageRefsOfPage(req[s].doc)) = 1
        /\ Len(ImageRefsOfPage(req[t].page)) = 1

\* The contract content of each revision.
Contract_part_000 == Contract(HomePage_part_000)

Contract_part_001 == Contract(HomePage_part_001)

\* The revisions are different trees, and equal once the hero image and the
\* link's styling classes are left out; part_000 has no image, part_001 one.
C17_DifferOnlyInImageAndLinkStyle ==
    /\ HomePage_part_000 # HomePage_part_001
    /\ WithoutImageAndLinkStyle(HomePage_part_000) = WithoutImageAndLinkStyle(HomePage_part_001)
    /\ FindAll(HomePage_part_000, "Image") = <<>>
    /\ Len(FindAll(HomePage_part_001, "Image")) = 1
    /\ FindAll(HomePage_part_000, "Link")[1].props.className
            # FindAll(HomePage_part_001, "Link")[1].props.className

\* C17: the two revisions of the landing page agree on everything the
\* contract names (heading, tagline, call-to-action target and label, the
\* six cards with titles, descriptions and icons in order), so a render of
\* either revision shows that same content; the revisions differ, and only
\* in the hero image and in the link's styling classes.
C17_RevisionsEquivalent ==
    /\ Contract_part_000 = Contract_part_001
    /\ C17_DifferOnlyInImageAndLinkStyle
    /\ \A s \in Slots : HomeRendered(s) =>
        LET shown == Contract(req[s].page) IN
            /\ shown = Contract_part_000
            /\ shown = Contract_part_001
            /\ Len(shown.cards) = 6

\* C17 witness: a render of the revision with the hero image: not the other
\* revision's tree, yet with the other revision's contract content.
C17_Witness ==
    \E s \in Slots :
        /\ HomeRendered(s) /\ build = "part_001"
        /\ req[s].page # HomePage_part_000
        /\ Contract(req[s].page).heading = "Android Notes by Me"
        /\ Contract(req[s].page).cta = [href |-> "/docs", label |-> "Go to docs"]

\* C18: the call-to-action is the only navigational link of the landing
\* page: exactly one element carries a link target, it is the hero's Link
\* to "/docs", and no feature card has one, so the documentation index is
\* the only destination the page leads to.
C18_OnlyCallToActionLinks ==
    \A s \in Slots : HomeRendered(s) =>
        LET linking == LinkingElements(req[s].page)
            cards   == FeatureCardsOf(req[s].page)
        IN  /\ Len(linking) = 1
            /\ linking[1].tag = "Link"
            /\ linking[1] \in {HeroContent(req[s].page)[i] :
                                    i \in 1..Len(HeroContent(req[s].page))}
            /\ {linking[i].props.href : i \in 1..Len(linking)} = {"/docs"}
            /\ \A i \in 1..Len(cards) : "href" \notin DOMAIN cards[i].props
            /\ FindAll(req[s].page, "a") = <<>>

\* C18 witness: a rendered landing page with its six cards and one linking
\* element.
C18_Witness ==
    \E s \in Slots :
        /\ HomeRendered(s)
        /\ Len(FeatureCardsOf(req[s].page)) = 6
        /\ Len(LinkingElements(req[s].page)) = 1

====
